---------------------------- MODULE Spec2Model ----------------------------
(***************************************************************************)
(* A model of the deterministic core of the Banff campsite auto-booker:    *)
(* the date-variant expansion of config.py and the section / site          *)
(* selection policy of booking.py.                                         *)
(*                                                                         *)
(* Strings are sequences of one-character strings, so that the string      *)
(* methods the code calls (strip, upper, lower, in, removeprefix, replace) *)
(* are computed character by character.  Calendar dates are day numbers    *)
(* counted from an epoch well inside the range of datetime.date; date      *)
(* arithmetic is integer arithmetic on them.                               *)
(*                                                                         *)
(* A selection function returns one of the objects of its candidate list   *)
(* or None.  The model returns the position of that object in the list     *)
(* (1 is the first element) and NoSelection for None, which keeps object   *)
(* identity apart from equality of names.                                  *)
(***************************************************************************)
EXTENDS Integers, Sequences, FiniteSets, TLC

VARIABLES
    pc,                 \* the step the program is at
    dates,              \* Config.dates: [check_in, check_out, flexible_days]
    variants,           \* the list date_variants() returned
    sites,              \* list[SiteEntry] handed to select_site
    sections,           \* list[Locator] handed to select_section
    preferred_sections, \* list[str]
    preferred_sites,    \* list[str]
    chosen,             \* what the selection function returned
    button,             \* the Locator whose label is read
    parts,              \* the pieces the label was put together from
    verdict,            \* what _is_section_label returned, or the exception
    letter,             \* what section_letter returned
    log,                \* the page actions of the running call, with outcome
    ret,                \* what the running call returned
    page,               \* what the results page shows to navigate_to_campground
    clock,              \* time.time(), in seconds
    deadline,           \* wait_through_queue's deadline
    timeout_minutes,    \* wait_through_queue's argument
    cli,                \* the locals of cli() and what it did to the browser
    dom,                \* the panels and buttons find_sites and find_sections read
    found,              \* the list find_sites or find_sections returned
    book                \* what the page shows to book_site

\* The variables of the date and selection steps, of the label functions.
coreVars == <<dates, variants, sites, sections, preferred_sections,
              preferred_sites, chosen>>

labelVars == <<button, parts, verdict, letter>>

callVars == <<log, ret>>

navVars == <<page>>

queueVars == <<clock, deadline, timeout_minutes>>

cliVars == <<cli>>

findVars == <<dom, found>>

bookVars == <<book>>

\* The variables the date and selection steps never touch.
auxVars == <<labelVars, callVars, navVars, queueVars, cliVars, findVars,
             bookVars>>

vars == <<pc, coreVars, auxVars>>

\* A Locator that reads nothing, and a label put together from nothing.
NoButton == [aria_label |-> <<>>, text_content |-> <<>>, inner_text |-> <<>>]

NoParts == [prefix |-> <<>>, ident |-> <<>>, marker |-> <<>>]

\* The label variables while no label function runs.
LabelIdle ==
    /\ button = NoButton
    /\ parts = NoParts
    /\ verdict = "none"
    /\ letter = <<>>

\* No call running: nothing done to the page, nothing returned.
CallIdle ==
    /\ log = <<>>
    /\ ret = "none"

\* A results page nothing is known about.
NoPage == [same_month |-> TRUE, no_available_sites |-> FALSE,
           card_count |-> 0, card_text |-> <<>>]

NavIdle == page = NoPage

QueueIdle ==
    /\ clock = 0
    /\ deadline = 0
    /\ timeout_minutes = 0

\* cli() before it starts.
NoCli == [campgrounds |-> 0, campground |-> 0, variant |-> 0,
          booked |-> FALSE, tried |-> <<>>, available |-> 0,
          login |-> "none", queue |-> "none",
          last |-> "none", clicked |-> {}, closes |-> 0,
          raised |-> "none", exit |-> "none"]

CliIdle == cli = NoCli

\* A page with no panel and no button, and nothing found on it.
NoDom == [panels |-> <<>>, buttons |-> <<>>]

FindIdle ==
    /\ dom = NoDom
    /\ found = <<>>

\* A page book_site was not called on.
NoBook == [details |-> FALSE, sections |-> 0, sites |-> 0]

BookIdle == book = NoBook

\* The variables of auxVars while the date and selection steps run.
AuxIdle ==
    /\ LabelIdle
    /\ CallIdle
    /\ NavIdle
    /\ QueueIdle
    /\ CliIdle
    /\ FindIdle
    /\ BookIdle

\* The date and selection variables while another part runs.
CoreIdle ==
    /\ dates = [check_in |-> 0, check_out |-> 0, flexible_days |-> 0]
    /\ variants = <<>>
    /\ sites = <<>>
    /\ sections = <<>>
    /\ preferred_sections = <<>>
    /\ preferred_sites = <<>>
    /\ chosen = 0

-----------------------------------------------------------------------------
(* Bounds of the model.                                                    *)

MaxDay == 4             \* check_in and check_out are day numbers in 0..MaxDay
MaxFlexibleDays == 2    \* flexible_days ranges over -1..MaxFlexibleDays
MaxSites == 2           \* longest list of sites
MaxSections == 2        \* longest list of sections
MaxPreferredSites == 2  \* longest preferred_sites list given to select_site
MaxPreferredSections == 2  \* longest preferred_sections list
MaxDerivingSites == 1   \* longest preferred_sites list given to select_section

\* The value a selection function returns for None.
NoSelection == 0

\* All sequences over S of length at most n.
SeqUpTo(S, n) == UNION {[1..k -> S] : k \in 0..n}

-----------------------------------------------------------------------------
(* Python's str methods, on sequences of characters.                       *)

LowerLetters ==
    <<"a","b","c","d","e","f","g","h","i","j","k","l","m",
      "n","o","p","q","r","s","t","u","v","w","x","y","z">>

UpperLetters ==
    <<"A","B","C","D","E","F","G","H","I","J","K","L","M",
      "N","O","P","Q","R","S","T","U","V","W","X","Y","Z">>

\* The upper-case letter of each lower-case letter, and the reverse.
UpperOf ==
    [c \in {LowerLetters[i] : i \in 1..Len(LowerLetters)} |->
        UpperLetters[CHOOSE i \in 1..Len(LowerLetters) : LowerLetters[i] = c]]

LowerOf ==
    [c \in {UpperLetters[i] : i \in 1..Len(UpperLetters)} |->
        LowerLetters[CHOOSE i \in 1..Len(UpperLetters) : UpperLetters[i] = c]]

\* c.isalpha()
isalpha(c) == c \in DOMAIN UpperOf \/ c \in DOMAIN LowerOf

\* c.isspace()
isspace(c) == c = " "

UpperChar(c) == IF c \in DOMAIN UpperOf THEN UpperOf[c] ELSE c

LowerChar(c) == IF c \in DOMAIN LowerOf THEN LowerOf[c] ELSE c

\* s.upper()
upper(s) == [i \in 1..Len(s) |-> UpperChar(s[i])]

\* s.lower()
lower(s) == [i \in 1..Len(s) |-> LowerChar(s[i])]

\* s.lstrip(): drop leading whitespace.
RECURSIVE lstrip(_)
lstrip(s) ==
    IF Len(s) = 0 THEN s
    ELSE IF isspace(Head(s)) THEN lstrip(Tail(s))
    ELSE s

\* s.rstrip(): drop trailing whitespace.
RECURSIVE rstrip(_)
rstrip(s) ==
    IF Len(s) = 0 THEN s
    ELSE IF isspace(s[Len(s)]) THEN rstrip(SubSeq(s, 1, Len(s) - 1))
    ELSE s

\* s.strip(): drop leading and trailing whitespace.
strip(s) == rstrip(lstrip(s))

\* s.startswith(p)
startswith(s, p) == Len(p) <= Len(s) /\ SubSeq(s, 1, Len(p)) = p

\* sub in s
contains(s, sub) ==
    \E i \in 0..(Len(s) - Len(sub)) : SubSeq(s, i + 1, i + Len(sub)) = sub

\* s.removeprefix(p)
removeprefix(s, p) ==
    IF startswith(s, p) THEN SubSeq(s, Len(p) + 1, Len(s)) ELSE s

\* s.replace(old, ""): every non-overlapping occurrence of old, left to right.
RECURSIVE remove(_, _)
remove(s, old) ==
    IF Len(s) = 0 THEN <<>>
    ELSE IF startswith(s, old) THEN remove(SubSeq(s, Len(old) + 1, Len(s)), old)
    ELSE <<Head(s)>> \o remove(Tail(s), old)

\* "".join(c for c in s if c.isalpha())
RECURSIVE letters(_)
letters(s) ==
    IF Len(s) = 0 THEN <<>>
    ELSE IF isalpha(Head(s)) THEN <<Head(s)>> \o letters(Tail(s))
    ELSE letters(Tail(s))

-----------------------------------------------------------------------------
(* config.py: Dates.date_variants                                          *)

\* Day numbers a configuration file may name, and the flexible_days it may give
\* (int() accepts a negative number).
Days == 0..MaxDay

FlexibleDays == -1..MaxFlexibleDays

\* A slip that shifts the earlier date first: sign -1 before sign 1.
ShiftedPairEarlierFirst(d, offset, sign) ==
    LET stay == d.check_out - d.check_in
        ci   == d.check_in - offset * sign
    IN  <<ci, ci + stay>>

\* The pair one (offset, sign) appends: check_in shifted, the stay kept.
ShiftedPair(d, offset, sign) ==
    LET stay == d.check_out - d.check_in
        ci   == d.check_in + offset * sign
    IN  <<ci, ci + stay>>

\* The loop `for offset in range(offset, flexible_days + 1)`, appending to acc
\* the pair of sign 1 and then the pair of sign -1.
RECURSIVE VariantsFrom(_, _, _)
VariantsFrom(d, offset, acc) ==
    IF offset > d.flexible_days THEN acc
    ELSE VariantsFrom(d, offset + 1,
            acc \o <<ShiftedPair(d, offset, 1), ShiftedPair(d, offset, -1)>>)

\* A slip in the range: range(1, flexible_days) leaves the last offset out.
date_variants_short_range(d) ==
    VariantsFrom([d EXCEPT !.flexible_days = @ - 1], 1,
                 << <<d.check_in, d.check_out>> >>)

\* A slip in the order: the exact dates appended after the shifted ones.
date_variants_exact_last(d) ==
    VariantsFrom(d, 1, <<>>) \o << <<d.check_in, d.check_out>> >>

date_variants(d) == VariantsFrom(d, 1, << <<d.check_in, d.check_out>> >>)

\* Values of the variables a specification does not use.
NoDates == [check_in |-> 0, check_out |-> 0, flexible_days |-> 0]

\* load_config: Dates(check_in, check_out, flexible_days) from the file's
\* ISO dates and its flexible_days, with no comparison of the two dates.
LoadConfig ==
    /\ pc = "start"
    /\ \E ci \in Days, co \in Days, fd \in FlexibleDays :
          dates' = [check_in |-> ci, check_out |-> co, flexible_days |-> fd]
    /\ pc' = "configured"
    /\ UNCHANGED <<variants, sites, sections, preferred_sections,
                   preferred_sites, chosen>>
    /\ UNCHANGED auxVars

\* Config(): the default Dates(date.today(), date.today()); the two calls
\* of date.today() may fall on either side of midnight.
DefaultConfig ==
    /\ pc = "start"
    /\ \E today \in Days : \E later \in {today, today + 1} :
          dates' = [check_in |-> today, check_out |-> later, flexible_days |-> 0]
    /\ pc' = "configured"
    /\ UNCHANGED <<variants, sites, sections, preferred_sections,
                   preferred_sites, chosen>>
    /\ UNCHANGED auxVars

\* cli: date_variants = cfg.dates.date_variants()
DateVariants ==
    /\ pc = "configured"
    /\ variants' = date_variants(dates)
    /\ pc' = "expanded"
    /\ UNCHANGED <<dates, sites, sections, preferred_sections,
                   preferred_sites, chosen>>
    /\ UNCHANGED auxVars

\* The state before any call: nothing configured, nothing selected.
Init ==
    /\ pc = "start"
    /\ dates = NoDates
    /\ variants = <<>>
    /\ sites = <<>>
    /\ sections = <<>>
    /\ preferred_sections = <<>>
    /\ preferred_sites = <<>>
    /\ chosen = NoSelection
    /\ AuxIdle

NextDates == LoadConfig \/ DefaultConfig \/ DateVariants

SpecDates == Init /\ [][NextDates]_vars

-----------------------------------------------------------------------------
(* Claims about date_variants, checked under SpecDates.                    *)

\* C1: for flexible_days = n >= 0, date_variants() returns exactly 1 + 2n
\* (check_in, check_out) pairs.
C1_VariantCount ==
    (pc = "expanded" /\ dates.flexible_days >= 0)
        => Len(variants) = 1 + 2 * dates.flexible_days

C1_Witness ==
    pc = "expanded" /\ dates.flexible_days = MaxFlexibleDays
        /\ Len(variants) = 1 + 2 * MaxFlexibleDays

\* C2: the first element of date_variants() is the requested pair
\* (check_in, check_out), whatever flexible_days is.
C2_FirstIsExact ==
    pc = "expanded" => variants[1] = <<dates.check_in, dates.check_out>>

C2_Witness ==
    pc = "expanded" /\ dates.flexible_days > 0
        /\ variants[1] = <<dates.check_in, dates.check_out>>
        /\ variants[2] # variants[1]

\* C3: for every k in 1..flexible_days the list holds (check_in + k,
\* check_out + k) at index 2k-1 and (check_in - k, check_out - k) at index 2k,
\* counting from 0 (positions 2k and 2k+1 of the sequence), and every pair
\* keeps the stay length check_out - check_in.
C3_OffsetOrder ==
    pc = "expanded" =>
        /\ \A k \in 1..dates.flexible_days :
              /\ variants[2 * k] = <<dates.check_in + k, dates.check_out + k>>
              /\ variants[2 * k + 1] = <<dates.check_in - k, dates.check_out - k>>
        /\ \A i \in 1..Len(variants) :
              variants[i][2] - variants[i][1] = dates.check_out - dates.check_in

C3_Witness ==
    pc = "expanded" /\ dates.flexible_days = 2 /\ Len(variants) = 5
        /\ variants[4] = <<dates.check_in + 2, dates.check_out + 2>>
        /\ variants[5] = <<dates.check_in - 2, dates.check_out - 2>>

\* C4: every date range date_variants() produces has check_out > check_in,
\* for every Dates value the program can construct.
C4_CheckOutAfterCheckIn ==
    pc = "expanded" => \A i \in 1..Len(variants) : variants[i][2] > variants[i][1]

-----------------------------------------------------------------------------
(* booking.py: the strings the selection code names.                       *)

SitePrefix == <<"S","i","t","e"," ">>                          \* "Site "

Available == <<"A","v","a","i","l","a","b","l","e">>           \* "Available"

NotAvailable == <<"N","o","t"," ">> \o Available               \* "Not Available"

Unavailable == <<"U","n","a","v","a","i","l","a","b","l","e">> \* "Unavailable"

\* The suffixes section_letter removes, in the order of its loop.
AvailabilitySuffixes == <<Available, NotAvailable, Unavailable>>

-----------------------------------------------------------------------------
(* booking.py: select_site                                                 *)

\* The inner loop `for site in sites` from position i on: the position of the
\* first site whose upper-cased name contains pref_upper, 0 when the loop ends.
RECURSIVE FirstSiteContaining(_, _, _)
FirstSiteContaining(ss, pref_upper, i) ==
    IF i > Len(ss) THEN 0
    ELSE IF contains(upper(ss[i].name), pref_upper) THEN i
    ELSE FirstSiteContaining(ss, pref_upper, i + 1)

\* The outer loop `for pref in preferred_sites` from position p on, then the
\* fallback `return sites[0]`.
RECURSIVE SelectSiteFrom(_, _, _)
SelectSiteFrom(ss, prefs, p) ==
    IF p > Len(prefs) THEN 1
    ELSE LET pref_upper == upper(strip(prefs[p]))
             hit        == FirstSiteContaining(ss, pref_upper, 1)
         IN  IF hit # 0 THEN hit ELSE SelectSiteFrom(ss, prefs, p + 1)

\* A slip: the guard `if not sites` left out.
select_site_unguarded(ss, prefs) == SelectSiteFrom(ss, prefs, 1)

\* A slip: the loops nested the other way round, sites outside preferences.
select_site_site_major(ss, prefs) ==
    IF Len(ss) = 0 THEN NoSelection
    ELSE LET hits == {i \in 1..Len(ss) : \E p \in 1..Len(prefs) :
                         contains(upper(ss[i].name), upper(strip(prefs[p])))}
         IN  IF hits = {} THEN 1
             ELSE CHOOSE i \in hits : \A j \in hits : i <= j

\* A slip: the last site, not the first, as the fallback.
select_site_last_fallback(ss, prefs) ==
    IF Len(ss) = 0 THEN NoSelection
    ELSE LET hits == {p \in 1..Len(prefs) :
                         FirstSiteContaining(ss, upper(strip(prefs[p])), 1) # 0}
         IN  IF hits = {} THEN Len(ss) ELSE SelectSiteFrom(ss, prefs, 1)

select_site(ss, prefs) ==
    IF Len(ss) = 0 THEN NoSelection ELSE SelectSiteFrom(ss, prefs, 1)

-----------------------------------------------------------------------------
(* booking.py: section_letter and select_section                           *)

\* `a or b` on two strings (None and "" are both false).
Or(a, b) == IF Len(a) > 0 THEN a ELSE b

\* select_section._label: aria-label, else inner_text, stripped.
Label(loc) == strip(Or(loc.aria_label, loc.inner_text))

\* The loop `for suffix in [...]: part = part.replace(suffix, "").strip()`
\* from position k on.
RECURSIVE StripSuffixes(_, _)
StripSuffixes(part, k) ==
    IF k > Len(AvailabilitySuffixes) THEN part
    ELSE StripSuffixes(strip(remove(part, AvailabilitySuffixes[k])), k + 1)

section_letter(loc) ==
    LET label == strip(Or(loc.aria_label, loc.text_content))
        part  == strip(removeprefix(label, SitePrefix))
    IN  StripSuffixes(part, 1)

\* The test of loop 1: pref.lower() in _label(sec).lower()
LabelContains(loc, pref) == contains(lower(Label(loc)), lower(pref))

\* The inner loop of loop 1 from position i on; 0 when it ends.
RECURSIVE FirstSectionContaining(_, _, _)
FirstSectionContaining(secs, pref, i) ==
    IF i > Len(secs) THEN 0
    ELSE IF LabelContains(secs[i], pref) THEN i
    ELSE FirstSectionContaining(secs, pref, i + 1)

\* Loop 1, `for pref in preferred_sections`, from position p on; 0 when no
\* entry matched.
RECURSIVE ExplicitSection(_, _, _)
ExplicitSection(secs, prefs, p) ==
    IF p > Len(prefs) THEN 0
    ELSE LET hit == FirstSectionContaining(secs, prefs[p], 1)
         IN  IF hit # 0 THEN hit ELSE ExplicitSection(secs, prefs, p + 1)

\* A slip: the upper-casing left out.
PrefSectionNotUpper(pref) == letters(pref)

\* pref_section = "".join(c for c in pref if c.isalpha()).upper()
PrefSection(pref) == upper(letters(pref))

\* The inner loop of loop 2 from position i on; 0 when it ends.
RECURSIVE FirstSectionLettered(_, _, _)
FirstSectionLettered(secs, pref_section, i) ==
    IF i > Len(secs) THEN 0
    ELSE IF upper(section_letter(secs[i])) = pref_section THEN i
    ELSE FirstSectionLettered(secs, pref_section, i + 1)

\* Loop 2, `for pref in preferred_sites`, from position p on, skipping an
\* entry with no letter; 0 when no entry matched.
RECURSIVE DerivedSection(_, _, _)
DerivedSection(secs, prefs, p) ==
    IF p > Len(prefs) THEN 0
    ELSE LET pref_section == PrefSection(prefs[p])
             hit == IF Len(pref_section) = 0 THEN 0
                    ELSE FirstSectionLettered(secs, pref_section, 1)
         IN  IF hit # 0 THEN hit ELSE DerivedSection(secs, prefs, p + 1)

\* A slip: the derived section tried before the explicit preferences.
select_section_derived_first(secs, pref_sections, pref_sites) ==
    IF Len(secs) = 0 THEN NoSelection
    ELSE LET derived  == DerivedSection(secs, pref_sites, 1)
             explicit == ExplicitSection(secs, pref_sections, 1)
         IN  IF derived # 0 THEN derived
             ELSE IF explicit # 0 THEN explicit
             ELSE 1

\* A slip: loop 1 nested the other way round, sections outside preferences.
select_section_section_major(secs, pref_sections, pref_sites) ==
    IF Len(secs) = 0 THEN NoSelection
    ELSE LET hits == {i \in 1..Len(secs) : \E p \in 1..Len(pref_sections) :
                         LabelContains(secs[i], pref_sections[p])}
             derived == DerivedSection(secs, pref_sites, 1)
         IN  IF hits # {} THEN CHOOSE i \in hits : \A j \in hits : i <= j
             ELSE IF derived # 0 THEN derived
             ELSE 1

\* A slip: the last section, not the first, as the fallback.
select_section_last_fallback(secs, pref_sections, pref_sites) ==
    IF Len(secs) = 0 THEN NoSelection
    ELSE LET explicit == ExplicitSection(secs, pref_sections, 1)
             derived  == DerivedSection(secs, pref_sites, 1)
         IN  IF explicit # 0 THEN explicit
             ELSE IF derived # 0 THEN derived
             ELSE Len(secs)

select_section(secs, pref_sections, pref_sites) ==
    IF Len(secs) = 0 THEN NoSelection
    ELSE LET explicit == ExplicitSection(secs, pref_sections, 1)
             derived  == DerivedSection(secs, pref_sites, 1)
         IN  IF explicit # 0 THEN explicit
             ELSE IF derived # 0 THEN derived
             ELSE 1

-----------------------------------------------------------------------------
(* The candidate lists and preference lists the selection functions are    *)
(* called with.                                                            *)

\* SiteEntry(name, locator): the names find_sites reads from the page.
SiteNames ==
    { <<"A","4","9">>, <<"A","5","5">>, <<"2","2","A">>, <<"2","2","B">> }

SiteEntries == {[name |-> n] : n \in SiteNames}

\* preferred_sites entries of a configuration file.
SitePreferences ==
    { <<"a","4","9">>, <<"A","5","5">>, <<" ","A","5","5">>,
      <<"Z","9","9">>, <<"2","2">> }

\* A section button: its aria-label (empty when the attribute is absent) and
\* its text, as text_content() and inner_text() read it.
Locator(aria, text) ==
    [aria_label |-> aria, text_content |-> text, inner_text |-> text]

SectionLabel(identifier) == identifier \o <<" "," ">> \o Available

SiteA == Locator(SectionLabel(SitePrefix \o <<"A">>), <<>>)

SiteB == Locator(<<>>, SectionLabel(SitePrefix \o <<"B">>))

Loops6 == Locator(SectionLabel(<<"L","o","o","p","s"," ","6","-","1","0">>), <<>>)

SiteLoops22 ==
    Locator(SectionLabel(SitePrefix \o <<"L","o","o","p","s"," ","2","2","-","2","7">>),
            <<>>)

SectionLocators == {SiteA, SiteB, Loops6, SiteLoops22}

\* preferred_sections entries of a configuration file.
SectionPreferences ==
    { <<"l","o","o","p","s"," ","6">>, <<"A">>, <<"L","a","k","e">> }

\* preferred_sites entries select_section derives a section from.
DerivingPreferences ==
    { <<"A","2","1">>, <<"b","7">>, <<"L","o","o","p","s"," ","2","2">>,
      <<"2","2">> }

\* The state at a call of a selection function: select_site(page, sites,
\* preferred_sites) with any candidate list and any preference list, or
\* select_section(page, sections, preferred_sections, preferred_sites).
InitSelect ==
    /\ AuxIdle
    /\ dates = NoDates
    /\ variants = <<>>
    /\ chosen = NoSelection
    /\ \/ /\ pc = "select_site"
          /\ sites \in SeqUpTo(SiteEntries, MaxSites)
          /\ preferred_sites \in SeqUpTo(SitePreferences, MaxPreferredSites)
          /\ sections = <<>>
          /\ preferred_sections = <<>>
       \/ /\ pc = "select_section"
          /\ sections \in SeqUpTo(SectionLocators, MaxSections)
          /\ preferred_sections \in SeqUpTo(SectionPreferences, MaxPreferredSections)
          /\ preferred_sites \in SeqUpTo(DerivingPreferences, MaxDerivingSites)
          /\ sites = <<>>

\* select_site runs and returns.
SelectSite ==
    /\ pc = "select_site"
    /\ chosen' = select_site(sites, preferred_sites)
    /\ pc' = "site_selected"
    /\ UNCHANGED <<dates, variants, sites, sections, preferred_sections,
                   preferred_sites>>
    /\ UNCHANGED auxVars

\* select_section runs and returns.
SelectSection ==
    /\ pc = "select_section"
    /\ chosen' = select_section(sections, preferred_sections, preferred_sites)
    /\ pc' = "section_selected"
    /\ UNCHANGED <<dates, variants, sites, sections, preferred_sections,
                   preferred_sites>>
    /\ UNCHANGED auxVars

NextSelect == SelectSite \/ SelectSection

SpecSelect == InitSelect /\ [][NextSelect]_vars

-----------------------------------------------------------------------------
(* Claims about select_site and select_section, checked under SpecSelect.  *)

\* sub is a case-insensitive substring of s.
IsSubstringIgnoringCase(sub, s) == contains(lower(s), lower(sub))

\* The least element of a non-empty set of positions.
Least(S) == CHOOSE i \in S : \A j \in S : i <= j

\* C5: select_site and select_section return None exactly when the candidate
\* list is empty, and a member of the list otherwise.
C5_NoneIffEmpty ==
    /\ pc = "site_selected" =>
          /\ (chosen = NoSelection) <=> (Len(sites) = 0)
          /\ Len(sites) > 0 => chosen \in 1..Len(sites)
    /\ pc = "section_selected" =>
          /\ (chosen = NoSelection) <=> (Len(sections) = 0)
          /\ Len(sections) > 0 => chosen \in 1..Len(sections)

C5_Witness ==
    /\ pc = "section_selected" /\ Len(sections) = 0
    /\ Len(preferred_sections) > 0 /\ Len(preferred_sites) > 0
    /\ chosen = NoSelection

\* Positions of the sites whose name contains entry, ignoring case.
SitesContaining(entry) ==
    {i \in 1..Len(sites) : IsSubstringIgnoringCase(entry, sites[i].name)}

\* Positions of the preferred_sites entries, as written, that some site name
\* contains.
EntriesContained ==
    {p \in 1..Len(preferred_sites) : SitesContaining(preferred_sites[p]) # {}}

\* Positions of the preferred_sites entries that some site name contains once
\* the entry's surrounding whitespace is trimmed.
TrimmedEntriesContained ==
    {p \in 1..Len(preferred_sites) :
        SitesContaining(strip(preferred_sites[p])) # {}}

\* C6 as stated: if some preferred_sites entry is a case-insensitive substring
\* of some site name, select_site returns the first site whose name contains
\* the earliest such entry.
C6_EarliestEntryAsWritten ==
    (pc = "site_selected" /\ Len(sites) > 0 /\ EntriesContained # {}) =>
        chosen = Least(SitesContaining(preferred_sites[Least(EntriesContained)]))

\* C6 as amended: the entries are compared after their surrounding whitespace
\* is trimmed; the first site whose name contains the earliest entry that,
\* trimmed, is a case-insensitive substring of some site name is returned.
C6_EarliestTrimmedEntry ==
    (pc = "site_selected" /\ Len(sites) > 0 /\ TrimmedEntriesContained # {}) =>
        chosen = Least(SitesContaining(
                     strip(preferred_sites[Least(TrimmedEntriesContained)])))

\* Sites [A55, A49] with preferences [a49, A55] give A49.
C6_Witness ==
    /\ pc = "site_selected"
    /\ sites = <<[name |-> <<"A","5","5">>], [name |-> <<"A","4","9">>]>>
    /\ preferred_sites = << <<"a","4","9">>, <<"A","5","5">> >>
    /\ chosen = 2

\* C7 as stated: when no preferred_sites entry is a case-insensitive substring
\* of any site name, select_site returns the first site.
C7_FallbackAsWritten ==
    (pc = "site_selected" /\ Len(sites) > 0 /\ EntriesContained = {}) =>
        chosen = 1

\* C7 as amended: when no preferred_sites entry, trimmed of surrounding
\* whitespace, is a case-insensitive substring of any site name, select_site
\* returns the first site.
C7_FallbackTrimmed ==
    (pc = "site_selected" /\ Len(sites) > 0 /\ TrimmedEntriesContained = {}) =>
        chosen = 1

C7_Witness ==
    /\ pc = "site_selected" /\ Len(sites) = 2 /\ sites[1] # sites[2]
    /\ preferred_sites = << <<"Z","9","9">> >>
    /\ chosen = 1

\* Positions of the sections whose displayed label contains entry, ignoring
\* case.
SectionsContaining(entry) ==
    {i \in 1..Len(sections) : IsSubstringIgnoringCase(entry, Label(sections[i]))}

\* Positions of the preferred_sections entries that match some section.
ExplicitEntriesMatching ==
    {p \in 1..Len(preferred_sections) :
        SectionsContaining(preferred_sections[p]) # {}}

\* C8: whenever some preferred_sections entry matches some section, the
\* section returned matches a preferred_sections entry, whatever
\* preferred_sites holds.
C8_ExplicitBeatsDerived ==
    (pc = "section_selected" /\ ExplicitEntriesMatching # {}) =>
        \E p \in 1..Len(preferred_sections) :
            chosen \in SectionsContaining(preferred_sections[p])

\* The explicit "loops 6" wins although "A21" derives the section "Site A".
C8_Witness ==
    /\ pc = "section_selected"
    /\ sections = <<SiteA, Loops6>>
    /\ preferred_sections = << <<"l","o","o","p","s"," ","6">> >>
    /\ preferred_sites = << <<"A","2","1">> >>
    /\ chosen = 2

\* C9: when several preferred_sections entries match, the first section in
\* list order matching the earliest matching entry is returned.
C9_EarliestExplicitEntry ==
    (pc = "section_selected" /\ ExplicitEntriesMatching # {}) =>
        chosen = Least(SectionsContaining(
                     preferred_sections[Least(ExplicitEntriesMatching)]))

\* The later entry "A" matches the earlier section and still loses.
C9_Witness ==
    /\ pc = "section_selected"
    /\ sections = <<SiteA, Loops6>>
    /\ preferred_sections = << <<"l","o","o","p","s"," ","6">>, <<"A">> >>
    /\ chosen = 2

\* A preferred_sites entry reduced to its letters, upper-cased.
LettersUpper(entry) == upper(letters(entry))

\* Positions of the sections whose identifier, reduced to its letters and
\* upper-cased, equals reduced.
SectionsReducingTo(reduced) ==
    {i \in 1..Len(sections) : LettersUpper(section_letter(sections[i])) = reduced}

\* Positions of the sections whose identifier, upper-cased and not reduced,
\* equals reduced.
SectionsNamed(reduced) ==
    {i \in 1..Len(sections) : upper(section_letter(sections[i])) = reduced}

\* Positions of the preferred_sites entries that keep a letter and whose
\* reduction some section's reduced identifier equals.
EntriesDerivingReduced ==
    {q \in 1..Len(preferred_sites) :
        /\ Len(LettersUpper(preferred_sites[q])) > 0
        /\ SectionsReducingTo(LettersUpper(preferred_sites[q])) # {}}

\* Positions of the preferred_sites entries that keep a letter and whose
\* reduction some section's unreduced identifier equals.
EntriesDerivingNamed ==
    {q \in 1..Len(preferred_sites) :
        /\ Len(LettersUpper(preferred_sites[q])) > 0
        /\ SectionsNamed(LettersUpper(preferred_sites[q])) # {}}

C11_FallbackFirstSection ==
    (/\ pc = "section_selected" /\ Len(sections) > 0
     /\ ExplicitEntriesMatching = {}
     /\ EntriesDerivingNamed = {}) =>
        chosen = 1

\* Preferences are given and none matches: the first of two sections.
C11_Witness ==
    /\ pc = "section_selected"
    /\ sections = <<SiteB, SiteA>>
    /\ preferred_sections = << <<"L","a","k","e">> >>
    /\ preferred_sites = << <<"2","2">> >>
    /\ chosen = 1

-----------------------------------------------------------------------------
(* booking.py: _is_section_label, and the labels the label functions read. *)

DigitChars == {"0","1","2","3","4","5","6","7","8","9"}

\* re.search(r'\d', s)
HasDigit(s) == \E i \in 1..Len(s) : s[i] \in DigitChars

\* _SECTION_PREFIXES = ("site ", "loops", "loop ")
SECTION_PREFIXES ==
    << <<"s","i","t","e"," ">>, <<"l","o","o","p","s">>, <<"l","o","o","p"," ">> >>

\* any(lower.startswith(p) for p in _SECTION_PREFIXES)
HasSectionPrefix(low) ==
    \E k \in 1..Len(SECTION_PREFIXES) : startswith(low, SECTION_PREFIXES[k])

\* The characters of s up to its first whitespace.
RECURSIVE UpToSpace(_)
UpToSpace(s) ==
    IF Len(s) = 0 \/ isspace(Head(s)) THEN <<>>
    ELSE <<Head(s)>> \o UpToSpace(Tail(s))

\* s.split(): whether it is empty, and its element 0.
SplitIsEmpty(s) == Len(lstrip(s)) = 0

SplitFirst(s) == UpToSpace(lstrip(s))

\* A slip: the digit test on the identifier left out.
is_section_label_prefix_only(label) ==
    IF HasSectionPrefix(lower(label)) THEN "True" ELSE "False"

\* _is_section_label(label): "True", "False", or the exception that escapes
\* label[5:].split()[0] when nothing follows the "site " prefix.
is_section_label(label) ==
    LET low == lower(label)
    IN  IF ~HasSectionPrefix(low) THEN "False"
        ELSE IF startswith(low, SECTION_PREFIXES[1])
             THEN LET rest == SubSeq(label, 6, Len(label))
                  IN  IF SplitIsEmpty(rest) THEN "IndexError"
                      ELSE IF HasDigit(SplitFirst(rest)) THEN "False"
                      ELSE "True"
        ELSE "True"

\* The pieces labels are put together from: what stands before the
\* identifier, the identifier, and the availability marker after it.
LabelPrefixes ==
    { SitePrefix, <<"s","i","t","e"," ">>, <<"S","i","t","e">>,
      <<"L","o","o","p","s"," ">>, <<"L","O","O","P","S"," ">>,
      <<"L","o","o","p"," ">>, <<"L","o","o","p">>, <<>> }

LabelIdentifiers ==
    { <<>>, <<"A">>, <<"b">>, <<"A","4","9">>, <<"2","2">>,
      <<"L","o","o","p","s"," ","2","2","-","2","7">>,
      <<"R","e","s","e","r","v","e">> }

LabelMarkers ==
    { <<>>, <<" "," ">> \o Available, <<" "," ">> \o NotAvailable,
      <<" "," ">> \o Unavailable }

LabelParts ==
    [prefix : LabelPrefixes, ident : LabelIdentifiers, marker : LabelMarkers]

\* The label the pieces make.
JoinParts(p) == p.prefix \o p.ident \o p.marker

\* A call of a label function: the label is any joining of the pieces, read
\* from the aria-label or, when the button has none, from its text.
InitLabel ==
    /\ pc = "label"
    /\ CoreIdle
    /\ parts \in LabelParts
    /\ button \in {Locator(JoinParts(parts), <<>>), Locator(<<>>, JoinParts(parts))}
    /\ verdict = "none"
    /\ letter = <<>>
    /\ CallIdle
    /\ NavIdle
    /\ QueueIdle
    /\ CliIdle
    /\ FindIdle
    /\ BookIdle

\* _is_section_label(label) runs on the label and returns or raises.
IsSectionLabel ==
    /\ pc = "label"
    /\ verdict' = is_section_label(JoinParts(parts))
    /\ pc' = "classified"
    /\ UNCHANGED <<coreVars, callVars, navVars, queueVars, cliVars, findVars, bookVars, button, parts, letter>>

\* section_letter(locator) runs on the button and returns.
SectionLetter ==
    /\ pc = "label"
    /\ letter' = section_letter(button)
    /\ pc' = "lettered"
    /\ UNCHANGED <<coreVars, callVars, navVars, queueVars, cliVars, findVars, bookVars, button, parts, verdict>>

NextLabel == IsSectionLabel \/ SectionLetter

SpecLabel == InitLabel /\ [][NextLabel]_vars

-----------------------------------------------------------------------------
(* Claims about the label functions, checked under SpecLabel.              *)

\* The positions i..j of s hold its first whitespace-delimited token.
IsFirstToken(s, i, j) ==
    /\ i <= j
    /\ \A k \in 1..(i - 1) : isspace(s[k])
    /\ \A k \in i..j : ~isspace(s[k])
    /\ j = Len(s) \/ isspace(s[j + 1])

\* The rule of the section labels: one of the three prefixes, ignoring case,
\* and after a "site " prefix a first token that holds no digit.
SectionRule(label) ==
    LET low  == lower(label)
        rest == SubSeq(label, 6, Len(label))
    IN  /\ \/ startswith(low, <<"s","i","t","e"," ">>)
           \/ startswith(low, <<"l","o","o","p","s">>)
           \/ startswith(low, <<"l","o","o","p"," ">>)
        /\ startswith(low, <<"s","i","t","e"," ">>) =>
              \E i \in 1..Len(rest), j \in 1..Len(rest) :
                  /\ IsFirstToken(rest, i, j)
                  /\ \A k \in i..j : rest[k] \notin DigitChars

\* C12: _is_section_label(label) is true exactly when the label begins,
\* ignoring case, with "site ", "loops" or "loop " and, after "site ", the
\* first whitespace-delimited token holds no digit.
C12_SectionLabelRule ==
    pc = "classified" =>
        ((verdict = "True") <=> SectionRule(JoinParts(parts)))

\* "Site A49  Available" is an individual site, not a section.
C12_Witness ==
    /\ pc = "classified"
    /\ JoinParts(parts) = SitePrefix \o <<"A","4","9">> \o <<" "," ">> \o Available
    /\ verdict = "False"

\* C13: _is_section_label never raises: for every input string it returns a
\* boolean.
C13_NeverRaises ==
    pc = "classified" => verdict \in {"True", "False"}

\* C14: for the label "Site X  M", M one of the three availability markers,
\* section_letter returns X with surrounding whitespace trimmed.
C14_LetterIsIdentifier ==
    (/\ pc = "lettered"
     /\ parts.prefix = SitePrefix
     /\ parts.marker # <<>>) =>
        letter = strip(parts.ident)

-----------------------------------------------------------------------------
(* search.py: navigate_to_campground, one action per page action.  Every   *)
(* page action either succeeds or raises (a timeout, a missing element).   *)

\* The page actions of the function's main line, in the order of the code.
NavOrder ==
    << "goto", "click:I Consent", "click:park select arrow", "click:Banff",
       "click:Arrival", "click:Select to", "click:arrival month",
       "click:arrival day", "click:departure day", "click:next month",
       "click:departure day again", "click:Party Size", "fill:Party Size",
       "click:equipment select arrow", "click:equipment",
       "click:Search for availability", "wait:domcontentloaded",
       "click:List view of results", "wait:#ListView", "wait:networkidle",
       "wait:campground card", "count:card label", "read:card label",
       "click:campground card", "wait:site buttons" >>

\* The page action that follows step on the main line.
After(step) ==
    NavOrder[(CHOOSE i \in 1..Len(NavOrder) : NavOrder[i] = step) + 1]

\* A slip: the search click wrapped in a try/except of its own.
OptionalStepsWithSearch ==
    {"click:I Consent", "wait:networkidle", "click:Search for availability"}

\* The page actions wrapped in a try/except that passes.
OptionalSteps == {"click:I Consent", "wait:networkidle"}

\* The page actions with a path of their own.
BranchingSteps ==
    {"click:departure day", "wait:campground card", "count:card label",
     "read:card label", "wait:site buttons"}

\* The page actions whose exception reaches the function's except clause and
\* whose success leads to the next page action.
RequiredSteps ==
    {NavOrder[i] : i \in 1..Len(NavOrder)} \ (OptionalSteps \cup BranchingSteps)

CampgroundName == <<"T","w","o"," ","J","a","c","k">>

\* What get_by_label("Site <name>") finds: no element, or one element and
\* its text_content (None reads as the empty text).
CardLabels ==
    { [card_count |-> 0, card_text |-> <<>>],
      [card_count |-> 1, card_text |-> <<>>],
      [card_count |-> 1, card_text |-> CampgroundName \o <<" "," ">> \o Available],
      [card_count |-> 1, card_text |-> CampgroundName \o <<" "," ">> \o NotAvailable],
      [card_count |-> 1, card_text |-> CampgroundName \o <<" "," ">> \o Unavailable] }

\* The results pages: whether check_in and check_out fall in one month,
\* whether "#ListView" shows "No Available Sites", and the campground's card.
NavPages ==
    { [same_month |-> m, no_available_sites |-> n,
       card_count |-> c.card_count, card_text |-> c.card_text] :
          m \in BOOLEAN, n \in BOOLEAN, c \in CardLabels }

InitNavigate ==
    /\ pc = "goto"
    /\ page \in NavPages
    /\ log = <<>>
    /\ ret = "none"
    /\ CoreIdle
    /\ LabelIdle
    /\ QueueIdle
    /\ CliIdle
    /\ FindIdle
    /\ BookIdle

\* The page action the function is at, done with outcome ok.
Did(ok) == Append(log, [act |-> pc, ok |-> ok])

\* return value
Return(value) ==
    /\ pc' = "returned"
    /\ ret' = value

\* A page action of the main line: on an exception control goes to the
\* function's except clause.
NavRequired ==
    /\ pc \in RequiredSteps
    /\ \E ok \in BOOLEAN :
          /\ log' = Did(ok)
          /\ pc' = IF ok THEN After(pc) ELSE "screenshot:nav_error"
    /\ UNCHANGED <<ret, page, coreVars, labelVars, queueVars, cliVars, findVars, bookVars>>

\* The consent click and the networkidle wait: an exception is passed over.
NavOptional ==
    /\ pc \in OptionalSteps
    /\ \E ok \in BOOLEAN : log' = Did(ok)
    /\ pc' = After(pc)
    /\ UNCHANGED <<ret, page, coreVars, labelVars, queueVars, cliVars, findVars, bookVars>>

\* The departure day: in the arrival month a plain click; in another month a
\* click that, when it raises, is followed by next-month and a second click.
NavDepartureDay ==
    /\ pc = "click:departure day"
    /\ \E ok \in BOOLEAN :
          /\ log' = Did(ok)
          /\ pc' = IF ok THEN "click:Party Size"
                   ELSE IF page.same_month THEN "screenshot:nav_error"
                   ELSE "click:next month"
    /\ UNCHANGED <<ret, page, coreVars, labelVars, queueVars, cliVars, findVars, bookVars>>

\* campground_btn.first.wait_for(...): when it raises, a debug screenshot.
NavWaitCard ==
    /\ pc = "wait:campground card"
    /\ \E ok \in BOOLEAN :
          /\ log' = Did(ok)
          /\ pc' = IF ok THEN "count:card label"
                   ELSE "screenshot:list_view_debug"
    /\ UNCHANGED <<ret, page, coreVars, labelVars, queueVars, cliVars, findVars, bookVars>>

\* The debug screenshot, its own exception passed over, then return False.
NavListViewScreenshot ==
    /\ pc = "screenshot:list_view_debug"
    /\ \E ok \in BOOLEAN : log' = Did(ok)
    /\ Return("False")
    /\ UNCHANGED <<page, coreVars, labelVars, queueVars, cliVars, findVars, bookVars>>

\* card_label.count() > 0 decides whether the label is read at all.
NavCountCard ==
    /\ pc = "count:card label"
    /\ \E ok \in BOOLEAN :
          /\ log' = Did(ok)
          /\ pc' = IF ~ok THEN "screenshot:nav_error"
                   ELSE IF page.card_count > 0 THEN "read:card label"
                   ELSE "click:campground card"
    /\ UNCHANGED <<ret, page, coreVars, labelVars, queueVars, cliVars, findVars, bookVars>>

\* label_text = text_content() or ""; "Available" not in label_text returns
\* False.
NavReadCard ==
    /\ pc = "read:card label"
    /\ \E ok \in BOOLEAN :
          /\ log' = Did(ok)
          /\ IF ~ok THEN pc' = "screenshot:nav_error" /\ ret' = ret
             ELSE IF ~contains(page.card_text, Available) THEN Return("False")
             ELSE pc' = "click:campground card" /\ ret' = ret
    /\ UNCHANGED <<page, coreVars, labelVars, queueVars, cliVars, findVars, bookVars>>

\* The wait for the site buttons, then return True.
NavWaitSiteButtons ==
    /\ pc = "wait:site buttons"
    /\ \E ok \in BOOLEAN :
          /\ log' = Did(ok)
          /\ IF ok THEN Return("True")
             ELSE pc' = "screenshot:nav_error" /\ ret' = ret
    /\ UNCHANGED <<page, coreVars, labelVars, queueVars, cliVars, findVars, bookVars>>

\* except Exception: a screenshot, its own exception passed over, then
\* return False.
NavError ==
    /\ pc = "screenshot:nav_error"
    /\ \E ok \in BOOLEAN : log' = Did(ok)
    /\ Return("False")
    /\ UNCHANGED <<page, coreVars, labelVars, queueVars, cliVars, findVars, bookVars>>

NextNavigate ==
    \/ NavRequired
    \/ NavOptional
    \/ NavDepartureDay
    \/ NavWaitCard
    \/ NavListViewScreenshot
    \/ NavCountCard
    \/ NavReadCard
    \/ NavWaitSiteButtons
    \/ NavError

SpecNavigate == InitNavigate /\ [][NextNavigate]_vars

-----------------------------------------------------------------------------
(* search.py: detect_queue and wait_through_queue.                         *)

MaxTimeoutMinutes == 1

\* The longest a detect_queue call takes, in seconds.
MaxDetectSeconds == 1

SecondsPerMinute == 60

\* time.sleep(3)
SleepSeconds == 3

\* What the page shows for the five _QUEUE_INDICATORS, in their order: each
\* is visible, is hidden, or raises when asked.
QueueViews ==
    { <<"hidden", "hidden", "hidden", "hidden", "hidden">>,
      <<"raises", "raises", "raises", "raises", "raises">>,
      <<"hidden", "raises", "hidden", "raises", "hidden">>,
      <<"visible", "hidden", "hidden", "hidden", "hidden">>,
      <<"raises", "hidden", "visible", "hidden", "raises">>,
      <<"hidden", "hidden", "hidden", "hidden", "visible">> }

\* detect_queue(page): True at the first indicator that is visible, an
\* indicator that raises is skipped, False after the last one.
RECURSIVE detect_queue(_)
detect_queue(view) ==
    IF Len(view) = 0 THEN FALSE
    ELSE IF Head(view) = "visible" THEN TRUE
    ELSE detect_queue(Tail(view))

\* A slip: the loop entered at the deadline too.
BeforeOrAtDeadline(now, limit) == now <= limit

\* time.time() < deadline
BeforeDeadline(now, limit) == now < limit

InitQueue ==
    /\ pc = "queue_check"
    /\ timeout_minutes \in 0..MaxTimeoutMinutes
    /\ clock = 0
    /\ deadline = 0
    /\ log = <<>>
    /\ ret = "none"
    /\ CoreIdle
    /\ LabelIdle
    /\ NavIdle
    /\ CliIdle
    /\ FindIdle
    /\ BookIdle

\* A detect_queue call, with what it returned.
Polled(detected) == [act |-> "detect_queue", ok |-> detected]

\* if not detect_queue(page): return True
QueueCheck ==
    /\ pc = "queue_check"
    /\ \E view \in QueueViews, d \in 0..MaxDetectSeconds :
          /\ log' = Append(log, Polled(detect_queue(view)))
          /\ clock' = clock + d
          /\ IF detect_queue(view) THEN pc' = "queue_deadline" /\ ret' = ret
             ELSE Return("True")
    /\ UNCHANGED <<deadline, timeout_minutes, coreVars, labelVars, navVars, cliVars, findVars, bookVars>>

\* deadline = time.time() + timeout_minutes * 60
QueueDeadline ==
    /\ pc = "queue_deadline"
    /\ deadline' = clock + timeout_minutes * SecondsPerMinute
    /\ pc' = "queue_while"
    /\ UNCHANGED <<clock, timeout_minutes, callVars, coreVars, labelVars, navVars, cliVars, findVars, bookVars>>

\* while time.time() < deadline: ... ; after the loop, return False
QueueWhile ==
    /\ pc = "queue_while"
    /\ IF BeforeDeadline(clock, deadline) THEN pc' = "queue_poll" /\ ret' = ret
       ELSE Return("False")
    /\ UNCHANGED <<log, queueVars, coreVars, labelVars, navVars, cliVars, findVars, bookVars>>

\* if not detect_queue(page): ...
QueuePoll ==
    /\ pc = "queue_poll"
    /\ \E view \in QueueViews, d \in 0..MaxDetectSeconds :
          /\ log' = Append(log, Polled(detect_queue(view)))
          /\ clock' = clock + d
          /\ pc' = IF detect_queue(view) THEN "queue_sleep" ELSE "queue_alert"
    /\ UNCHANGED <<ret, deadline, timeout_minutes, coreVars, labelVars, navVars, cliVars, findVars, bookVars>>

\* alert("Auto-Booker", "You are through the queue!", ...); return True
QueueAlert ==
    /\ pc = "queue_alert"
    /\ log' = Append(log, [act |-> "alert", ok |-> TRUE])
    /\ Return("True")
    /\ UNCHANGED <<queueVars, coreVars, labelVars, navVars, cliVars, findVars, bookVars>>

\* time.sleep(3)
QueueSleep ==
    /\ pc = "queue_sleep"
    /\ clock' = clock + SleepSeconds
    /\ pc' = "queue_while"
    /\ UNCHANGED <<deadline, timeout_minutes, callVars, coreVars, labelVars, navVars, cliVars, findVars, bookVars>>

NextQueue ==
    \/ QueueCheck
    \/ QueueDeadline
    \/ QueueWhile
    \/ QueuePoll
    \/ QueueAlert
    \/ QueueSleep

SpecQueue == InitQueue /\ [][NextQueue]_vars

-----------------------------------------------------------------------------
(* main.py: cli(), one action per statement that calls into the browser.   *)
(* The booking functions are the ones main.py imports by name:             *)
(* find_available_sites, click_book, fill_booking_form and                 *)
(* advance_to_checkout, whose code is the booking.py of setup_project.py.  *)
(* cli.last is the last action that changed the page (a goto, click, fill, *)
(* select or check), cli.clicked the controls clicked so far.              *)

MaxCampgrounds == 2

\* The most sites find_available_sites finds.
MaxAvailable == 1

\* for label in ["Continue", "Proceed", "Checkout", "Next", "Continuer"]
AdvanceLabels == <<"Continue", "Proceed", "Checkout", "Next", "Continuer">>

\* The first label of the list with a visible control, "none" without one.
FirstVisible(visible) ==
    IF \E i \in 1..Len(AdvanceLabels) : AdvanceLabels[i] \in visible
    THEN AdvanceLabels[CHOOSE i \in 1..Len(AdvanceLabels) :
                          /\ AdvanceLabels[i] \in visible
                          /\ \A j \in 1..(i - 1) : AdvanceLabels[j] \notin visible]
    ELSE "none"

\* advance_to_checkout(page) with no exception: the first label of the list
\* with a visible control is clicked and the loop left; the function returns
\* True whether or not a control was clicked.
advance_to_checkout(visible) ==
    [clicked |-> FirstVisible(visible), result |-> TRUE]

\* The controls navigate_to_campground may click.
NavControls ==
    {NavOrder[i] : i \in 1..Len(NavOrder)} \
        {"goto", "fill:Party Size", "wait:domcontentloaded", "wait:#ListView",
         "wait:networkidle", "wait:campground card", "count:card label",
         "read:card label", "wait:site buttons"}

\* The configurations cli runs with: the number of campgrounds and the dates.
InitCli ==
    /\ pc = "cli:launch"
    /\ \E n \in 0..MaxCampgrounds : cli = [NoCli EXCEPT !.campgrounds = n]
    /\ \E f \in 0..MaxFlexibleDays :
          dates = [check_in |-> 1, check_out |-> 2, flexible_days |-> f]
    /\ variants = <<>>
    /\ sites = <<>>
    /\ sections = <<>>
    /\ preferred_sections = <<>>
    /\ preferred_sites = <<>>
    /\ chosen = NoSelection
    /\ LabelIdle
    /\ CallIdle
    /\ NavIdle
    /\ QueueIdle
    /\ FindIdle
    /\ BookIdle

\* What a cli step leaves alone besides pc and cli.
cliRest == <<dates, sites, sections, preferred_sections, preferred_sites,
             chosen, labelVars, callVars, navVars, queueVars, findVars,
             bookVars>>

\* An exception leaves the try block for the finally clause.
Raise(exception) ==
    /\ cli' = [cli EXCEPT !.raised = exception]
    /\ pc' = "cli:finally"

\* A slip: continue skips a date variant.
NextVariantSkipping(c) == [c EXCEPT !.variant = @ + 2]

\* continue: the next date variant of the same campground.
NextVariant(c) == [c EXCEPT !.variant = @ + 1]

\* page = session.launch()
CliLaunch ==
    /\ pc = "cli:launch"
    /\ pc' = "cli:login"
    /\ UNCHANGED <<cli, variants, cliRest>>

\* if not wait_for_login(page, ...): its page.goto, then True or False.
CliLogin ==
    /\ pc = "cli:login"
    /\ \/ \E logged_in \in BOOLEAN :
             /\ cli' = [cli EXCEPT !.last = "goto",
                                   !.login = IF logged_in THEN "True" ELSE "False"]
             /\ pc' = IF logged_in THEN "cli:queue" ELSE "cli:give_up"
       \/ Raise("Exception")
    /\ UNCHANGED <<variants, cliRest>>

\* A slip: the result of wait_through_queue not tested.
CliQueueUnchecked ==
    /\ pc = "cli:queue"
    /\ \E through \in BOOLEAN :
          /\ cli' = [cli EXCEPT !.queue = IF through THEN "True" ELSE "False"]
          /\ pc' = "cli:variants"
    /\ UNCHANGED <<variants, cliRest>>

\* if not wait_through_queue(page, ...)
CliQueue ==
    /\ pc = "cli:queue"
    /\ \E through \in BOOLEAN :
          /\ cli' = [cli EXCEPT !.queue = IF through THEN "True" ELSE "False"]
          /\ pc' = IF through THEN "cli:variants" ELSE "cli:give_up"
    /\ UNCHANGED <<variants, cliRest>>

\* session.close(); sys.exit(1) after a login or queue timeout.
CliGiveUp ==
    /\ pc = "cli:give_up"
    /\ cli' = [cli EXCEPT !.closes = @ + 1, !.raised = "SystemExit"]
    /\ pc' = "cli:finally"
    /\ UNCHANGED <<variants, cliRest>>

\* booked = False; date_variants = cfg.dates.date_variants()
CliVariants ==
    /\ pc = "cli:variants"
    /\ variants' = date_variants(dates)
    /\ cli' = [cli EXCEPT !.booked = FALSE, !.campground = 1]
    /\ pc' = "cli:campground"
    /\ UNCHANGED cliRest

\* for campground in cfg.campgrounds: if booked: break
CliCampground ==
    /\ pc = "cli:campground"
    /\ IF cli.campground > cli.campgrounds \/ cli.booked
       THEN pc' = "cli:after" /\ cli' = cli
       ELSE pc' = "cli:variant" /\ cli' = [cli EXCEPT !.variant = 1]
    /\ UNCHANGED <<variants, cliRest>>

\* for check_in, check_out in date_variants
CliVariant ==
    /\ pc = "cli:variant"
    /\ IF cli.variant > Len(variants)
       THEN pc' = "cli:campground" /\ cli' = [cli EXCEPT !.campground = @ + 1]
       ELSE pc' = "cli:navigate" /\ cli' = cli
    /\ UNCHANGED <<variants, cliRest>>

\* if not navigate_to_campground(...): continue
CliNavigate ==
    /\ pc = "cli:navigate"
    /\ \E opened \in BOOLEAN :
          LET c == [cli EXCEPT !.tried = Append(@, <<cli.campground, cli.variant>>),
                               !.last = "navigate_to_campground",
                               !.clicked = @ \cup NavControls]
          IN  IF opened THEN pc' = "cli:find" /\ cli' = c
              ELSE pc' = "cli:variant" /\ cli' = NextVariant(c)
    /\ UNCHANGED <<variants, cliRest>>

\* available = find_available_sites(page); if not available: continue
CliFind ==
    /\ pc = "cli:find"
    /\ \E n \in 0..MaxAvailable :
          IF n = 0 THEN pc' = "cli:variant" /\ cli' = NextVariant(cli)
          ELSE pc' = "cli:select" /\ cli' = [cli EXCEPT !.available = n]
    /\ UNCHANGED <<variants, cliRest>>

\* site = select_site(page, available, ...); if site is None: continue
CliSelect ==
    /\ pc = "cli:select"
    /\ IF cli.available = 0 THEN pc' = "cli:variant" /\ cli' = NextVariant(cli)
       ELSE pc' = "cli:book" /\ cli' = cli
    /\ UNCHANGED <<variants, cliRest>>

\* if not click_book(page, site): continue
CliBook ==
    /\ pc = "cli:book"
    /\ \E ok \in BOOLEAN :
          IF ok THEN /\ pc' = "cli:fill"
                     /\ cli' = [cli EXCEPT !.last = "click:Book",
                                           !.clicked = @ \cup {"Book"}]
          ELSE pc' = "cli:variant" /\ cli' = NextVariant(cli)
    /\ UNCHANGED <<variants, cliRest>>

\* fill_booking_form(page, ...): fields are filled or none exists; its result
\* is dropped; after an exception its handler's take_screenshot may raise.
CliFill ==
    /\ pc = "cli:fill"
    /\ \E acted \in BOOLEAN, error \in {"none", "caught", "uncaught"} :
          LET c == [cli EXCEPT !.last = IF acted THEN "fill:booking form" ELSE @]
          IN  IF error = "uncaught"
              THEN pc' = "cli:finally" /\ cli' = [c EXCEPT !.raised = "Exception"]
              ELSE pc' = "cli:advance" /\ cli' = c
    /\ UNCHANGED <<variants, cliRest>>

\* if advance_to_checkout(page): booked = True; break
CliAdvance ==
    /\ pc = "cli:advance"
    /\ \/ \E visible \in SUBSET {AdvanceLabels[i] : i \in 1..Len(AdvanceLabels)} :
             LET r == advance_to_checkout(visible)
                 c == IF r.clicked = "none" THEN cli
                      ELSE [cli EXCEPT !.last = "click:advance",
                                       !.clicked = @ \cup {r.clicked}]
             IN  IF r.result
                 THEN /\ pc' = "cli:campground"
                      /\ cli' = [c EXCEPT !.booked = TRUE, !.campground = @ + 1]
                 ELSE pc' = "cli:variant" /\ cli' = NextVariant(c)
       \/ pc' = "cli:variant" /\ cli' = NextVariant(cli)
       \/ Raise("Exception")
    /\ UNCHANGED <<variants, cliRest>>

\* if not booked: ... ; else pause_before_payment(page)
CliAfter ==
    /\ pc = "cli:after"
    /\ pc' = IF cli.booked THEN "cli:pause" ELSE "cli:exhausted"
    /\ UNCHANGED <<cli, variants, cliRest>>

\* take_screenshot(page, "no_availability")
CliExhausted ==
    /\ pc = "cli:exhausted"
    /\ \/ pc' = "cli:idle" /\ cli' = cli
       \/ Raise("Exception")
    /\ UNCHANGED <<variants, cliRest>>

\* A slip: sys.exit(1) left out after the idle loop.
CliIdleInterruptedNoExit ==
    /\ pc = "cli:idle"
    /\ cli' = [cli EXCEPT !.closes = @ + 1]
    /\ pc' = "cli:finally"
    /\ UNCHANGED <<variants, cliRest>>

\* while True: time.sleep(5), until KeyboardInterrupt; then
\* session.close(); sys.exit(1)
CliIdleInterrupted ==
    /\ pc = "cli:idle"
    /\ cli' = [cli EXCEPT !.closes = @ + 1, !.raised = "SystemExit"]
    /\ pc' = "cli:finally"
    /\ UNCHANGED <<variants, cliRest>>

\* pause_before_payment(page): alert, take_screenshot(page, "pre_payment")
CliPause ==
    /\ pc = "cli:pause"
    /\ \/ pc' = "cli:paused" /\ cli' = cli
       \/ Raise("Exception")
    /\ UNCHANGED <<variants, cliRest>>

\* pause_before_payment's while True: time.sleep(5), until KeyboardInterrupt,
\* which it catches; it returns and cli's try block ends.
CliPausedInterrupted ==
    /\ pc = "cli:paused"
    /\ pc' = "cli:finally"
    /\ UNCHANGED <<cli, variants, cliRest>>

\* A KeyboardInterrupt anywhere else in the try block: except
\* KeyboardInterrupt, then the finally clause.
CliInterrupt ==
    /\ pc \in {"cli:launch", "cli:login", "cli:queue", "cli:give_up",
               "cli:variants", "cli:campground", "cli:variant",
               "cli:navigate", "cli:find", "cli:select", "cli:book",
               "cli:fill", "cli:advance", "cli:after", "cli:exhausted",
               "cli:pause"}
    /\ Raise("KeyboardInterrupt")
    /\ UNCHANGED <<variants, cliRest>>

\* finally: session.close(); then the process ends: status 1 from
\* sys.exit(1), a traceback from an exception, 0 otherwise.
CliFinally ==
    /\ pc = "cli:finally"
    /\ cli' = [cli EXCEPT !.closes = @ + 1,
                          !.exit = IF cli.raised = "SystemExit" THEN "1"
                                   ELSE IF cli.raised = "Exception" THEN "traceback"
                                   ELSE "0"]
    /\ pc' = "cli:exited"
    /\ UNCHANGED <<variants, cliRest>>

NextCli ==
    \/ CliLaunch
    \/ CliLogin
    \/ CliQueue
    \/ CliGiveUp
    \/ CliVariants
    \/ CliCampground
    \/ CliVariant
    \/ CliNavigate
    \/ CliFind
    \/ CliSelect
    \/ CliBook
    \/ CliFill
    \/ CliAdvance
    \/ CliAfter
    \/ CliExhausted
    \/ CliIdleInterrupted
    \/ CliPause
    \/ CliPausedInterrupted
    \/ CliInterrupt
    \/ CliFinally

SpecCli == InitCli /\ [][NextCli]_vars

-----------------------------------------------------------------------------
(* booking.py: find_sites and find_sections on a page of panels and        *)
(* buttons.  A panel has is_visible() ("yes", "no", or "raises"), the      *)
(* texts of its .availability-label elements, its data-resource attribute  *)
(* (empty when absent), the inner texts of its h3.resource-name elements,  *)
(* and whether it has a mat-expansion-panel-header.                        *)

MaxPanels == 2

MaxButtons == 2

\* str(n) for the panel numbers of the model.
DecimalDigits == <<"1", "2", "3", "4", "5", "6", "7", "8", "9">>

\* The name of the panel at position i of the page (i - 1 in the code):
\* data-resource, else the stripped h3 text, else f"Site {i+1}".
PanelName(panel, i) ==
    IF Len(panel.data_resource) > 0 THEN panel.data_resource
    ELSE LET h3 == IF Len(panel.h3) > 0 THEN strip(panel.h3[1]) ELSE <<>>
         IN  IF Len(h3) > 0 THEN h3 ELSE SitePrefix \o <<DecimalDigits[i]>>

\* A slip: the availability label tested with `in`.
HasAvailableLabelSubstring(panel) ==
    \E j \in 1..Len(panel.labels) : contains(panel.labels[j], Available)

\* Some .availability-label of the panel reads, stripped, "Available".
HasAvailableLabel(panel) ==
    \E j \in 1..Len(panel.labels) : strip(panel.labels[j]) = Available

\* A slip: no `seen` test in the panel loop.
RECURSIVE PanelScanKeepingAll(_, _, _, _)
PanelScanKeepingAll(panels, i, entries, seen) ==
    IF i > Len(panels) THEN [sites |-> entries, seen |-> seen]
    ELSE LET panel == panels[i]
             name  == PanelName(panel, i)
         IN  IF panel.visible # "yes" \/ ~HasAvailableLabel(panel) \/ ~panel.header
             THEN PanelScanKeepingAll(panels, i + 1, entries, seen)
             ELSE PanelScanKeepingAll(panels, i + 1,
                      Append(entries, [name |-> name, kind |-> "panel", at |-> i]),
                      seen \cup {name})

\* The loop over the panels from position i on: what it leaves in sites and
\* in seen.  A panel that raises is passed over.
RECURSIVE PanelScan(_, _, _, _)
PanelScan(panels, i, entries, seen) ==
    IF i > Len(panels) THEN [sites |-> entries, seen |-> seen]
    ELSE LET panel == panels[i]
             name  == PanelName(panel, i)
         IN  IF panel.visible # "yes" THEN PanelScan(panels, i + 1, entries, seen)
             ELSE IF ~HasAvailableLabel(panel)
                  THEN PanelScan(panels, i + 1, entries, seen)
             ELSE IF name \in seen THEN PanelScan(panels, i + 1, entries, seen)
             ELSE IF ~panel.header
                  THEN PanelScan(panels, i + 1, entries, seen \cup {name})
             ELSE PanelScan(panels, i + 1,
                      Append(entries, [name |-> name, kind |-> "panel", at |-> i]),
                      seen \cup {name})

\* The fallback loop over the buttons from position i on.
RECURSIVE ButtonScan(_, _, _, _)
ButtonScan(buttons, i, entries, seen) ==
    IF i > Len(buttons) THEN entries
    ELSE LET btn   == buttons[i]
             label == strip(Or(btn.aria_label, btn.inner_text))
             rest  == SubSeq(label, 6, Len(label))
         IN  IF ~(contains(label, Available) /\ startswith(label, SitePrefix)
                  /\ btn.visible)
             THEN ButtonScan(buttons, i + 1, entries, seen)
             ELSE IF SplitIsEmpty(rest)
                  THEN ButtonScan(buttons, i + 1, entries, seen)
             ELSE IF HasDigit(SplitFirst(rest)) /\ SplitFirst(rest) \notin seen
                  THEN ButtonScan(buttons, i + 1,
                           Append(entries, [name |-> SplitFirst(rest),
                                            kind |-> "button", at |-> i]),
                           seen \cup {SplitFirst(rest)})
             ELSE ButtonScan(buttons, i + 1, entries, seen)

\* find_sites(page): the panels' entries, or without any the buttons'.
find_sites(d) ==
    LET scanned == PanelScan(d.panels, 1, <<>>, {})
    IN  IF Len(scanned.sites) > 0 THEN scanned.sites
        ELSE ButtonScan(d.buttons, 1, <<>>, scanned.seen)

\* find_sections(page), from button i on: the visible buttons whose label
\* contains "Available" and passes _is_section_label; a button on which a
\* call raises is passed over.
RECURSIVE find_sections(_, _)
find_sections(buttons, i) ==
    IF i > Len(buttons) THEN <<>>
    ELSE LET btn   == buttons[i]
             label == strip(Or(btn.aria_label, btn.text_content))
         IN  IF /\ contains(label, Available)
                /\ is_section_label(label) = "True"
                /\ btn.visible
             THEN <<[name |-> label, kind |-> "button", at |-> i]>>
                      \o find_sections(buttons, i + 1)
             ELSE find_sections(buttons, i + 1)

Panel(visible, labels, data_resource, h3, header) ==
    [visible |-> visible, labels |-> labels, data_resource |-> data_resource,
     h3 |-> h3, header |-> header]

A50 == <<"A", "5", "0">>

A51 == <<"A", "5", "1">>

\* The panels pages are made of: available ones, one labelled
\* "Not Available", a hidden one, one without a header, one whose
\* is_visible() raises, one named by its h3 whose second label reads
\* " Available ", and one with no name at all.
Panels ==
    { Panel("yes", <<Available>>, A50, <<>>, TRUE),
      Panel("yes", <<Available>>, A51, <<>>, TRUE),
      Panel("yes", <<NotAvailable>>, A50, <<>>, TRUE),
      Panel("no", <<Available>>, A51, <<>>, TRUE),
      Panel("yes", <<Available>>, A50, <<>>, FALSE),
      Panel("raises", <<Available>>, A50, <<>>, TRUE),
      Panel("yes", <<NotAvailable, <<" ">> \o Available \o <<" ">> >>, <<>>,
            << <<" ">> \o A50 \o <<" ">> >>, TRUE),
      Panel("yes", <<Available>>, <<>>, <<>>, TRUE) }

Button(aria, text, visible) ==
    [aria_label |-> aria, text_content |-> text, inner_text |-> text,
     visible |-> visible]

\* The buttons pages are made of: two site buttons, a section button, a
\* section and a site marked "Not Available", and a hidden section.
Buttons ==
    { Button(SitePrefix \o <<"A","4","9">> \o <<" "," ">> \o Available, <<>>, TRUE),
      Button(<<>>, SitePrefix \o A50 \o <<" "," ">> \o Available, TRUE),
      Button(SitePrefix \o <<"A">> \o <<" "," ">> \o Available, <<>>, TRUE),
      Button(SitePrefix \o <<"A">> \o <<" "," ">> \o NotAvailable, <<>>, TRUE),
      Button(SitePrefix \o A51 \o <<" "," ">> \o NotAvailable, <<>>, TRUE),
      Button(<<"L","o","o","p","s"," ","6">> \o <<" "," ">> \o Available, <<>>, FALSE) }

InitFind ==
    /\ pc = "find"
    /\ dom \in [panels : SeqUpTo(Panels, MaxPanels),
                buttons : SeqUpTo(Buttons, MaxButtons)]
    /\ found = <<>>
    /\ CoreIdle
    /\ LabelIdle
    /\ CallIdle
    /\ NavIdle
    /\ QueueIdle
    /\ CliIdle
    /\ BookIdle

\* sites = find_sites(page)
FindSites ==
    /\ pc = "find"
    /\ found' = find_sites(dom)
    /\ pc' = "sites_found"
    /\ UNCHANGED <<dom, coreVars, labelVars, callVars, navVars, queueVars,
                   cliVars, bookVars>>

\* sections = find_sections(page)
FindSections ==
    /\ pc = "find"
    /\ found' = find_sections(dom.buttons, 1)
    /\ pc' = "sections_found"
    /\ UNCHANGED <<dom, coreVars, labelVars, callVars, navVars, queueVars,
                   cliVars, bookVars>>

NextFind == FindSites \/ FindSections

SpecFind == InitFind /\ [][NextFind]_vars

-----------------------------------------------------------------------------
(* booking.py: book_site, one action per call it makes.  The page shows    *)
(* Details buttons at entry or not, find_sections finds book.sections      *)
(* sections and find_sites finds book.sites sites.  log holds the calls    *)
(* and page actions made, each with whether it succeeded.                  *)

InitBook ==
    /\ pc = "book:details"
    /\ book \in [details : BOOLEAN, sections : 0..MaxSections, sites : 0..MaxSites]
    /\ log = <<>>
    /\ ret = "none"
    /\ CoreIdle
    /\ LabelIdle
    /\ NavIdle
    /\ QueueIdle
    /\ CliIdle
    /\ FindIdle

bookRest == <<book, coreVars, labelVars, navVars, queueVars, cliVars, findVars>>

\* The log after the calls named, all of them succeeding.
Called(acts) == log \o [k \in 1..Len(acts) |-> [act |-> acts[k], ok |-> TRUE]]

\* The log after the calls named, the last one raising.
CalledRaising(acts) ==
    log \o [k \in 1..Len(acts) |-> [act |-> acts[k], ok |-> k < Len(acts)]]

\* A slip: the section level entered whatever _details_buttons returns.
BookDetailsIgnored ==
    /\ pc = "book:details"
    /\ log' = Called(<<"_details_buttons">>)
    /\ pc' = "book:find_sections"
    /\ UNCHANGED <<ret, bookRest>>

\* if not _details_buttons(page): ...
BookDetails ==
    /\ pc = "book:details"
    /\ log' = Called(<<"_details_buttons">>)
    /\ pc' = IF book.details THEN "book:find_sites" ELSE "book:find_sections"
    /\ UNCHANGED <<ret, bookRest>>

\* sections = find_sections(page): an exception or an empty list ends in a
\* screenshot and return False.
BookFindSections ==
    /\ pc = "book:find_sections"
    /\ \/ /\ log' = Called(<<"find_sections">>)
          /\ pc' = IF book.sections = 0 THEN "book:screenshot"
                   ELSE "book:select_section"
       \/ /\ log' = CalledRaising(<<"find_sections">>)
          /\ pc' = "book:screenshot"
    /\ UNCHANGED <<ret, bookRest>>

\* chosen_section = select_section(...); chosen_section.click(); the wait
\* for .btn-view-details, whose exception is passed over.
BookSelectSection ==
    /\ pc = "book:select_section"
    /\ \/ \E shown \in BOOLEAN :
             /\ log' = Called(<<"select_section", "click:section">>)
                          \o <<[act |-> "wait:.btn-view-details", ok |-> shown]>>
             /\ pc' = "book:find_sites"
             /\ ret' = ret
       \/ /\ \/ log' = CalledRaising(<<"select_section">>)
             \/ log' = CalledRaising(<<"select_section", "click:section">>)
          /\ Return("Exception")
    /\ UNCHANGED bookRest

\* sites = find_sites(page): an empty list ends in a screenshot and return
\* False.
BookFindSites ==
    /\ pc = "book:find_sites"
    /\ log' = Called(<<"find_sites">>)
    /\ pc' = IF book.sites = 0 THEN "book:screenshot" ELSE "book:select_site"
    /\ UNCHANGED <<ret, bookRest>>

\* chosen_site = select_site(...); chosen_site.locator.click(); the wait for
\* the Reserve button, whose exception is passed over.
BookSelectSite ==
    /\ pc = "book:select_site"
    /\ \/ \E shown \in BOOLEAN :
             /\ log' = Called(<<"select_site", "click:site">>)
                          \o <<[act |-> "wait:Reserve", ok |-> shown]>>
             /\ pc' = "book:reserve"
             /\ ret' = ret
       \/ /\ \/ log' = CalledRaising(<<"select_site">>)
             \/ log' = CalledRaising(<<"select_site", "click:site">>)
          /\ Return("Exception")
    /\ UNCHANGED bookRest

\* return reserve_site(page): True, or False after an exception inside it.
BookReserve ==
    /\ pc = "book:reserve"
    /\ \E confirmed \in BOOLEAN :
          /\ log' = Append(log, [act |-> "reserve_site", ok |-> confirmed])
          /\ Return(IF confirmed THEN "True" ELSE "False")
    /\ UNCHANGED bookRest

\* take_screenshot(page, ...); return False.  An exception of the screenshot
\* leaves book_site.
BookScreenshot ==
    /\ pc = "book:screenshot"
    /\ \/ log' = Called(<<"take_screenshot">>) /\ Return("False")
       \/ log' = CalledRaising(<<"take_screenshot">>) /\ Return("Exception")
    /\ UNCHANGED bookRest

NextBook ==
    \/ BookDetails
    \/ BookFindSections
    \/ BookSelectSection
    \/ BookFindSites
    \/ BookSelectSite
    \/ BookReserve
    \/ BookScreenshot

SpecBook == InitBook /\ [][NextBook]_vars

\* C15: whenever select_section returns a section because of a
\* preferred_sections entry, that entry is, ignoring case, a substring of the
\* section's identifier as section_letter gives it (the label without the
\* "Site " prefix and without the availability marker).
C15_ExplicitOnIdentifier ==
    (pc = "section_selected" /\ ExplicitEntriesMatching # {}) =>
        IsSubstringIgnoringCase(
            preferred_sections[Least(ExplicitEntriesMatching)],
            section_letter(sections[chosen]))

-----------------------------------------------------------------------------
(* Claims about navigate_to_campground, checked under SpecNavigate.        *)

\* The page actions of the running call that raised.
Failed == {i \in 1..Len(log) : ~log[i].ok}

\* C17 as stated: navigate_to_campground returns a boolean, and whichever
\* page action fails (goto, any click, any wait, reading the card label) it
\* returns False.
C17_FalseOnAnyFailure ==
    pc = "returned" =>
        /\ ret \in {"True", "False"}
        /\ Failed # {} => ret = "False"

\* A failure the function passes over: the consent click, the networkidle
\* wait, and the first click on a departure day in another month.
Tolerated(i) ==
    \/ log[i].act \in {"click:I Consent", "wait:networkidle"}
    \/ log[i].act = "click:departure day" /\ ~page.same_month

\* C17: navigate_to_campground returns a boolean, and it returns False
\* whenever a page action fails other than the consent click, the
\* networkidle wait and the first departure-day click in another month,
\* after which it goes on and may return True.
C17_FalseOnRequiredFailure ==
    pc = "returned" =>
        /\ ret \in {"True", "False"}
        /\ (\E i \in Failed : ~Tolerated(i)) => ret = "False"

\* The consent banner never showed, and the click on the card failed.
C17_Witness ==
    /\ pc = "returned"
    /\ ret = "False"
    /\ Len(log) > 2
    /\ log[2] = [act |-> "click:I Consent", ok |-> FALSE]
    /\ log[Len(log) - 1] = [act |-> "click:campground card", ok |-> FALSE]

\* C18: when "#ListView" shows "No Available Sites", navigate_to_campground
\* returns False without looking for or clicking the campground card.
C18_FalseOnNoAvailableSites ==
    (/\ pc = "returned"
     /\ page.no_available_sites
     /\ \E i \in 1..Len(log) : log[i] = [act |-> "wait:#ListView", ok |-> TRUE]) =>
        /\ ret = "False"
        /\ \A i \in 1..Len(log) :
              log[i].act \notin {"wait:campground card", "count:card label",
                                 "read:card label", "click:campground card"}

-----------------------------------------------------------------------------
(* Claims about wait_through_queue, checked under SpecQueue.               *)

Alerts == {i \in 1..Len(log) : log[i].act = "alert"}

Polls == {i \in 1..Len(log) : log[i].act = "detect_queue"}

\* C19: wait_through_queue returns True at once, without alerting, when no
\* queue is detected at call time; otherwise it returns True only directly
\* after a detect_queue poll entered before the deadline that finds no queue
\* indicator, with the alert fired once, and returns False only when the
\* deadline has passed with the queue detected at every poll.
C19_QueueOutcome ==
    /\ pc = "queue_poll" => clock < deadline
    /\ pc = "returned" =>
        /\ ~log[1].ok => (ret = "True" /\ Len(log) = 1)
        /\ (log[1].ok /\ ret = "True") =>
              /\ Len(log) >= 3
              /\ log[Len(log) - 1].act = "detect_queue"
              /\ ~log[Len(log) - 1].ok
              /\ Alerts = {Len(log)}
              /\ \A i \in Polls : i < Len(log) - 1 => log[i].ok
        /\ ret = "False" =>
              /\ clock >= deadline
              /\ Alerts = {}
              /\ \A i \in Polls : log[i].ok
        /\ ret \in {"True", "False"}

\* Through the queue at the third poll of the loop.
C19_Witness ==
    /\ pc = "returned"
    /\ ret = "True"
    /\ Len(log) = 5
    /\ log[1].ok /\ log[2].ok /\ log[3].ok /\ ~log[4].ok
    /\ log[5].act = "alert"

-----------------------------------------------------------------------------
(* Claims about cli, checked under SpecCli.                                *)

\* pause_before_payment is running.
Pausing == pc \in {"cli:pause", "cli:paused"}

\* While pause_before_payment runs the page is not acted on.
PauseLeavesPage ==
    [][Pausing => (cli'.last = cli.last /\ cli'.clicked = cli.clicked)]_vars

\* C20: the program stops before payment: when pause_before_payment runs, the
\* last automated page action is the click that confirmed the reservation
\* (advanced to checkout), and while it runs (alert, screenshot, idling until
\* the interrupt) no control is clicked and the page is not acted on.
C20_StopsBeforePayment ==
    /\ [](Pausing => cli.last = "click:advance")
    /\ PauseLeavesPage

\* Every option was tried without a booking.
Exhausted == pc \in {"cli:exhausted", "cli:idle"}

C22_LoginAndQueueFirst ==
    /\ cli.queue # "none" => cli.login = "True"
    /\ (pc \in {"cli:navigate", "cli:find", "cli:select", "cli:book",
                "cli:fill", "cli:advance"} \/ Len(cli.tried) > 0) =>
          (cli.login = "True" /\ cli.queue = "True")
    /\ (cli.login = "False" \/ cli.queue = "False") =>
          /\ cli.tried = <<>>
          /\ cli.clicked = {}
          /\ variants = <<>>
          /\ ~cli.booked
          /\ pc \in {"cli:give_up", "cli:finally", "cli:exited"}
          /\ (pc = "cli:exited" /\ cli.raised # "KeyboardInterrupt") =>
                (cli.exit = "1" /\ cli.closes >= 1)

\* Logged in, then the queue timed out.
C22_Witness ==
    /\ pc = "cli:exited"
    /\ cli.login = "True"
    /\ cli.queue = "False"
    /\ cli.tried = <<>>
    /\ cli.exit = "1"

\* The k-th (campground, date variant) pair in priority order: campgrounds in
\* config order, for each campground every date variant in order.
PairInOrder(k) ==
    <<((k - 1) \div Len(variants)) + 1, ((k - 1) % Len(variants)) + 1>>

\* C23: cli tries (campground, date variant) pairs in lexicographic priority
\* order, a failed step moving on to the next pair until none is left, and
\* after the first pair for which advance_to_checkout returns True no further
\* navigate_to_campground call is made.
C23_PriorityOrder ==
    /\ [](/\ \A k \in 1..Len(cli.tried) : cli.tried[k] = PairInOrder(k)
          /\ Exhausted => Len(cli.tried) = cli.campgrounds * Len(variants))
    /\ [][cli.booked => cli'.tried = cli.tried]_vars

\* Three variants of the first campground failed, the second campground's
\* exact dates were booked.
C23_Witness ==
    /\ pc = "cli:paused"
    /\ cli.booked
    /\ cli.tried = << <<1, 1>>, <<1, 2>>, <<1, 3>>, <<2, 1>> >>

-----------------------------------------------------------------------------
(* Further claims about navigate_to_campground, under SpecNavigate.        *)

\* The label marks the campground as Available.
MarksAvailable(text) == contains(text, Available) /\ ~contains(text, NotAvailable)

CardClicked ==
    \E i \in 1..Len(log) : log[i] = [act |-> "click:campground card", ok |-> TRUE]

\* C24: navigate_to_campground clicks the campground card only when the
\* card's label marks the campground as Available: with a label that reads
\* "Not Available", or does not mark availability, the card is not clicked
\* and the function returns False.
C24_ClicksOnlyAvailableCard ==
    (page.card_count > 0 /\ ~MarksAvailable(page.card_text)) =>
        /\ ~CardClicked
        /\ pc = "returned" => ret = "False"

-----------------------------------------------------------------------------
(* Claims about find_sites and find_sections, checked under SpecFind.      *)

\* The positions of the panels, and of the buttons, in the list returned.
PanelsFound == {found[k].at : k \in {l \in 1..Len(found) : found[l].kind = "panel"}}

ButtonsFound == {found[k].at : k \in {l \in 1..Len(found) : found[l].kind = "button"}}

\* The list returned follows the order of the page.
InPageOrder ==
    \A k \in 1..Len(found), l \in 1..Len(found) :
        k < l => (found[k].kind = found[l].kind /\ found[k].at < found[l].at)

\* The visible panels with an availability label that reads "Available".
AvailablePanels ==
    {i \in 1..Len(dom.panels) :
        /\ dom.panels[i].visible = "yes"
        /\ \E j \in 1..Len(dom.panels[i].labels) :
              strip(dom.panels[i].labels[j]) = Available}

\* The panels of S that are the first of S in page order with their name.
FirstOfName(S) ==
    {i \in S : \A j \in S :
        j < i => PanelName(dom.panels[j], j) # PanelName(dom.panels[i], i)}

\* The visible "Site <id> ... Available" buttons whose <id> holds a digit.
SiteButtons ==
    {i \in 1..Len(dom.buttons) :
        LET label == strip(Or(dom.buttons[i].aria_label, dom.buttons[i].inner_text))
        IN  /\ dom.buttons[i].visible
            /\ startswith(label, SitePrefix)
            /\ contains(label, Available)
            /\ \E k \in 6..Len(label) : label[k] \in DigitChars}

\* C25 as stated: find_sites returns, in page order, exactly the visible
\* panels whose availability label is "Available" (once per site name), and
\* an empty list when no panel and no fallback button qualifies.
C25_ExactlyAvailablePanels ==
    pc = "sites_found" =>
        /\ InPageOrder
        /\ PanelsFound = FirstOfName(AvailablePanels)
        /\ (AvailablePanels = {} /\ SiteButtons = {}) => found = <<>>

\* C25: find_sites returns, in page order, exactly the visible panels whose
\* availability label, trimmed, is "Available", that are the first with
\* their site name and have a mat-expansion-panel-header; a panel labelled
\* "Not Available" is never returned; the list is empty when no such panel
\* and no fallback button qualifies.
C25_AvailablePanelsWithHeader ==
    pc = "sites_found" =>
        /\ InPageOrder
        /\ PanelsFound =
              {i \in FirstOfName(AvailablePanels) : dom.panels[i].header}
        /\ \A i \in PanelsFound : dom.panels[i].labels # <<NotAvailable>>
        /\ (PanelsFound = {} /\ SiteButtons = {}) => found = <<>>

\* The panel labelled "Not Available" is left out, the next one returned.
C25_Witness ==
    /\ pc = "sites_found"
    /\ dom.panels = << Panel("yes", <<NotAvailable>>, A50, <<>>, TRUE),
                       Panel("yes", <<Available>>, A51, <<>>, TRUE) >>
    /\ found = << [name |-> A51, kind |-> "panel", at |-> 2] >>

\* The identifier in the label of the button at position i.
ButtonIdentifier(i) ==
    LET label == strip(Or(dom.buttons[i].aria_label, dom.buttons[i].inner_text))
    IN  SplitFirst(SubSeq(label, 6, Len(label)))

\* C26: the list find_sites returns never holds two entries with the same
\* site name, and the entry kept for a name is its first occurrence in page
\* order.
C26_NoDuplicateNames ==
    pc = "sites_found" =>
        /\ \A k \in 1..Len(found), l \in 1..Len(found) :
              k # l => found[k].name # found[l].name
        /\ PanelsFound \subseteq FirstOfName(AvailablePanels)
        /\ \A i \in ButtonsFound : \A j \in SiteButtons :
              j < i => ButtonIdentifier(j) # ButtonIdentifier(i)

\* Two available panels of the site A50: the first one is kept.
C26_Witness ==
    /\ pc = "sites_found"
    /\ dom.panels = << Panel("yes", <<Available>>, A50, <<>>, TRUE),
                       Panel("yes", <<Available>>, A50, <<>>, TRUE) >>
    /\ found = << [name |-> A50, kind |-> "panel", at |-> 1] >>

\* C27: every button find_sections returns is visible, its label passes
\* _is_section_label, and the label marks it as Available: a section button
\* labelled "Site A  Not Available" is never returned.
C27_OnlyAvailableSections ==
    pc = "sections_found" =>
        \A k \in 1..Len(found) :
            LET btn   == dom.buttons[found[k].at]
                label == strip(Or(btn.aria_label, btn.text_content))
            IN  /\ btn.visible
                /\ is_section_label(label) = "True"
                /\ MarksAvailable(label)

-----------------------------------------------------------------------------
(* Claims about book_site, checked under SpecBook.                         *)

\* The call or page action named was made.
Made(name) == \E i \in 1..Len(log) : log[i].act = name

-----------------------------------------------------------------------------
(* Claims about the end of cli, checked under SpecCli.                     *)

\* One of the five controls of advance_to_checkout was clicked.
AdvanceClicked ==
    \E i \in 1..Len(AdvanceLabels) : AdvanceLabels[i] \in cli.clicked

\* C29: advance_to_checkout returns True only if it clicked one of the
\* 'Continue', 'Proceed', 'Checkout', 'Next' or 'Continuer' controls; so cli
\* marks a campsite as booked, and reaches pause_before_payment, only after
\* such a click.
C29_BookedOnlyAfterAdvanceClick ==
    /\ cli.booked => AdvanceClicked
    /\ pc = "cli:pause" => AdvanceClicked

\* C30: on every terminating path of cli after the session is launched,
\* BrowserSession.close() is executed exactly once: the context is closed
\* before the process exits and close() is never invoked on a session that
\* is already closed.
C30_ClosedExactlyOnce ==
    /\ cli.closes <= 1
    /\ pc = "cli:exited" => cli.closes = 1

=============================================================================
